---- MODULE Spec2Model ----
\* A model of the try-continue crate (src/src/lib.rs): the adapter
\* TryContinueIter, its Iterator::next, and TryContinue::try_continue,
\* run by one or by two independent invocations.
EXTENDS Integers, Sequences, FiniteSets, TLC

\* ---------------------------------------------------------------- bounds
\* Longest underlying sequence of an invocation that runs alone.
MaxLen == 3
\* Success payloads are 1..MaxPayload, error values are 1..MaxErr.
MaxPayload == 2
MaxErr == 2
\* A transformation gives up after at most this many None answers.
MaxNones == 2
\* Two interleaved invocations: longest underlying sequence, and the most
\* next calls a transformation makes.
PairMaxLen == 2
PairMaxCalls == 3

\* No transformation of the family needs more next calls than this: every
\* call consumes an element or answers None.
MaxCalls == MaxLen + MaxNones

\* ---------------------------------------------------------------- values
\* Option<T>: None is <<>>, Some(x) is <<x>>.
None == <<>>
Some(x) == <<x>>

\* Result<T, E>
Ok(v) == [tag |-> "Ok", val |-> v]
Err(e) == [tag |-> "Err", val |-> e]

Outcomes == {Ok(v) : v \in 1..MaxPayload} \cup {Err(e) : e \in 1..MaxErr}

SeqsUpTo(S, n) == UNION {[1..k -> S] : k \in 0..n}

\* ------------------------------------------------- the underlying iterator
\* `self`, an Iterator<Item = Result<T, E>> over a finite list (vec::IntoIter
\* mapped, as in the tests): the items and the number of next calls made on it.
Underlying(items) == [items |-> items, n |-> 0]

\* self.iter.next(): the element at the cursor, None once exhausted.
iter_next(it) ==
  [item |-> IF it.n < Len(it.items) THEN Some(it.items[it.n + 1]) ELSE None,
   it   |-> [it EXCEPT !.n = @ + 1]]

\* ------------------------------------------------------------ the adapter
\* new that pulls a first element while it builds the adapter.
newReadAhead(it) == [iter |-> iter_next(it).it, err |-> None]

\* TryContinueIter::new
new(it) == [iter |-> it, err |-> None]

\* next with the Err arm forgetting to store the error.
nextNoStore(self) ==
  LET p == iter_next(self.iter)
  IN  IF p.item = None
      THEN [self |-> [self EXCEPT !.iter = p.it], ret |-> None]
      ELSE LET res == p.item[1]
           IN  IF res.tag = "Ok"
               THEN [self |-> [self EXCEPT !.iter = p.it], ret |-> Some(res.val)]
               ELSE [self |-> [self EXCEPT !.iter = p.it], ret |-> None]

\* next with the Ok arm dropping the payload.
nextOkDropped(self) ==
  LET p == iter_next(self.iter)
  IN  IF p.item = None
      THEN [self |-> [self EXCEPT !.iter = p.it], ret |-> None]
      ELSE LET res == p.item[1]
           IN  IF res.tag = "Ok"
               THEN [self |-> [self EXCEPT !.iter = p.it], ret |-> None]
               ELSE [self |-> [iter |-> p.it, err |-> Some(res.val)], ret |-> None]

\* next with the Err arm storing a converted error instead of the original.
nextErrChanged(self) ==
  LET p == iter_next(self.iter)
  IN  IF p.item = None
      THEN [self |-> [self EXCEPT !.iter = p.it], ret |-> None]
      ELSE LET res == p.item[1]
           IN  IF res.tag = "Ok"
               THEN [self |-> [self EXCEPT !.iter = p.it], ret |-> Some(res.val)]
               ELSE [self |-> [iter |-> p.it, err |-> Some(res.val + 1)], ret |-> None]

\* next with the end of the underlying sequence captured as an error.
nextEndAsErr(self) ==
  LET p == iter_next(self.iter)
  IN  IF p.item = None
      THEN [self |-> [iter |-> p.it, err |-> Some(0)], ret |-> None]
      ELSE LET res == p.item[1]
           IN  IF res.tag = "Ok"
               THEN [self |-> [self EXCEPT !.iter = p.it], ret |-> Some(res.val)]
               ELSE [self |-> [iter |-> p.it, err |-> Some(res.val)], ret |-> None]

\* next that looks at the element under the cursor without taking it when
\* the element is an Ok.
nextNoAdvance(self) ==
  LET p == iter_next(self.iter)
  IN  IF p.item = None
      THEN [self |-> [self EXCEPT !.iter = p.it], ret |-> None]
      ELSE LET res == p.item[1]
           IN  IF res.tag = "Ok"
               THEN [self |-> self, ret |-> Some(res.val)]
               ELSE [self |-> [iter |-> p.it, err |-> Some(res.val)], ret |-> None]

\* <TryContinueIter as Iterator>::next: the adapter afterwards and the
\* returned Option<T>.
next(self) ==
  LET p == iter_next(self.iter)
  IN  IF p.item = None
      THEN [self |-> [self EXCEPT !.iter = p.it], ret |-> None]
      ELSE LET res == p.item[1]
           IN  IF res.tag = "Ok"
               THEN [self |-> [self EXCEPT !.iter = p.it], ret |-> Some(res.val)]
               ELSE [self |-> [iter |-> p.it, err |-> Some(res.val)], ret |-> None]

\* map_or with the captured error ignored.
map_or_AlwaysOk(err, iteration_output) == Ok(iteration_output)

\* iter.err.map_or(Ok(iteration_output), Err)
map_or(err, iteration_output) ==
  IF err = None THEN Ok(iteration_output) ELSE Err(err[1])

\* ------------------------------------------------------ the transformation
\* The closure f: it calls next while it has made fewer than `limit` calls and
\* has received fewer than `nones` None answers, then computes its result from
\* the payloads it received (count, sum, collect).
Kinds == {"count", "sum", "collect"}

Transformations(maxCalls, nones, kinds) ==
  [limit : 0..maxCalls, nones : nones, kind : kinds]

\* One next call as the transformation saw it: adapter before, adapter after, answer.
Entry(before, r) == [before |-> before, after |-> r.self, ret |-> r.ret]

RECURSIVE Nones(_)
Nones(lg) ==
  IF lg = <<>> THEN 0
  ELSE (IF lg[Len(lg)].ret = None THEN 1 ELSE 0) + Nones(SubSeq(lg, 1, Len(lg) - 1))

RECURSIVE Seen(_)
Seen(lg) ==
  IF lg = <<>> THEN <<>>
  ELSE Seen(SubSeq(lg, 1, Len(lg) - 1)) \o lg[Len(lg)].ret

Wants(fd, lg) == Len(lg) < fd.limit /\ Nones(lg) < fd.nones

RECURSIVE SumSeq(_)
SumSeq(s) == IF s = <<>> THEN 0 ELSE Head(s) + SumSeq(Tail(s))

Output(fd, seen) ==
  CASE fd.kind = "count" -> Len(seen)
    [] fd.kind = "sum" -> SumSeq(seen)
    [] OTHER -> seen

\* The same closure run on an ordinary iterator over `rest` (no adapter): it
\* receives the elements in order, then None for ever.
RECURSIVE DirectRun(_, _, _, _, _)
DirectRun(fd, rest, calls, nones, seen) ==
  IF calls < fd.limit /\ nones < fd.nones
  THEN IF rest = <<>>
       THEN DirectRun(fd, rest, calls + 1, nones + 1, seen)
       ELSE DirectRun(fd, Tail(rest), calls + 1, nones, Append(seen, Head(rest)))
  ELSE Output(fd, seen)

\* ------------------------------------------------------------------ state
VARIABLES
  input,             \* input[i]: the sequence try_continue is called on
  f,                 \* f[i]: the transformation passed to try_continue
  pc,                \* pc[i]: "call", "f", "map_or", "ret"
  iter,              \* iter[i]: the local `iter` of try_continue, None before line 81
  log,               \* log[i]: the next calls f has made, in order
  iteration_output,  \* iteration_output[i]: the local of line 82, None before it
  result,            \* result[i]: the value try_continue returned, None before it
  fcount,            \* fcount[i]: how many times f was invoked
  errRead            \* errRead[i]: the number of next calls made when iter.err was read

vars == <<input, f, pc, iter, log, iteration_output, result, fcount, errRead>>

Invs == DOMAIN pc

\* A next call whose captured error lands in every live adapter, as a slot
\* shared between adapters would make it.
WriteBackShared(adapters, i, a) ==
  [j \in DOMAIN adapters |->
     IF j = i THEN Some(a)
     ELSE IF adapters[j] = None THEN None
     ELSE Some([adapters[j][1] EXCEPT !.err = a.err])]

\* `&mut self`: a next call changes the adapter it was called on and no other.
WriteBack(adapters, i, a) == [adapters EXCEPT ![i] = Some(a)]

InitOf(ids, inputs, fs) ==
  /\ input \in [ids -> inputs]
  /\ f \in [ids -> fs]
  /\ pc = [i \in ids |-> "call"]
  /\ iter = [i \in ids |-> None]
  /\ log = [i \in ids |-> <<>>]
  /\ iteration_output = [i \in ids |-> None]
  /\ result = [i \in ids |-> None]
  /\ fcount = [i \in ids |-> 0]
  /\ errRead = [i \in ids |-> None]

\* One invocation on any sequence with any transformation of the family.
Init == InitOf({1}, SeqsUpTo(Outcomes, MaxLen), Transformations(MaxCalls, 1..MaxNones, Kinds))

\* line 81 and the call of line 82: build the adapter, enter f.
Call(i) ==
  /\ pc[i] = "call"
  /\ iter' = [iter EXCEPT ![i] = Some(new(Underlying(input[i])))]
  /\ fcount' = [fcount EXCEPT ![i] = @ + 1]
  /\ pc' = [pc EXCEPT ![i] = "f"]
  /\ UNCHANGED <<input, f, log, iteration_output, result, errRead>>

\* inside f: one call of next on the adapter.
FNext(i) ==
  /\ pc[i] = "f"
  /\ Wants(f[i], log[i])
  /\ LET r == next(iter[i][1])
     IN  /\ iter' = WriteBack(iter, i, r.self)
         /\ log' = [log EXCEPT ![i] = Append(@, Entry(iter[i][1], r))]
  /\ UNCHANGED <<input, f, pc, iteration_output, result, fcount, errRead>>

\* line 82: f returns its result.
FReturn(i) ==
  /\ pc[i] = "f"
  /\ ~Wants(f[i], log[i])
  /\ iteration_output' = [iteration_output EXCEPT ![i] = Some(Output(f[i], Seen(log[i])))]
  /\ pc' = [pc EXCEPT ![i] = "map_or"]
  /\ UNCHANGED <<input, f, iter, log, result, fcount, errRead>>

\* Return with the slot read without waiting for f to return.
ReturnBeforeF(i) ==
  /\ pc[i] \in {"f", "map_or"}
  /\ result' = [result EXCEPT ![i] = Some(map_or(iter[i][1].err, iteration_output[i]))]
  /\ errRead' = [errRead EXCEPT ![i] = Some(Len(log[i]))]
  /\ pc' = [pc EXCEPT ![i] = "ret"]
  /\ UNCHANGED <<input, f, iter, log, iteration_output, fcount>>

\* line 83: read the slot and return.
Return(i) ==
  /\ pc[i] = "map_or"
  /\ result' = [result EXCEPT ![i] = Some(map_or(iter[i][1].err, iteration_output[i][1]))]
  /\ errRead' = [errRead EXCEPT ![i] = Some(Len(log[i]))]
  /\ pc' = [pc EXCEPT ![i] = "ret"]
  /\ UNCHANGED <<input, f, iter, log, iteration_output, fcount>>

Next ==
  \/ \E i \in Invs : Call(i)
  \/ \E i \in Invs : FNext(i)
  \/ \E i \in Invs : FReturn(i)
  \/ \E i \in Invs : Return(i)

Spec == Init /\ [][Next]_vars

\* Two invocations, on any two sequences and with any two transformations,
\* their steps interleaved in any order. Each transformation collects what it
\* receives and makes any number of next calls up to PairMaxCalls (it stops
\* early only after MaxNones None answers).
PairOutcomes == {Ok(1), Err(1), Err(2)}

InitPair ==
  InitOf({1, 2}, SeqsUpTo(PairOutcomes, PairMaxLen),
         Transformations(PairMaxCalls, {MaxNones}, {"collect"}))

SpecPair == InitPair /\ [][Next]_vars

\* One invocation whose transformation calls next until the first None; the
\* call is synchronous, so a step that can be taken is taken.
InitLive ==
  InitOf({1}, SeqsUpTo(Outcomes, MaxLen),
         [limit : {MaxCalls}, nones : {1}, kind : Kinds])

SpecLive == InitLive /\ [][Next]_vars /\ WF_vars(Next)

\* try_continue run on its own, from line 81 to line 83: f's next calls one
\* after the other, then the read of the slot.
RECURSIVE run_f(_, _, _)
run_f(fd, it, lg) ==
  IF Wants(fd, lg)
  THEN LET r == next(it) IN run_f(fd, r.self, Append(lg, Entry(it, r)))
  ELSE [iter |-> it, iteration_output |-> Output(fd, Seen(lg))]

try_continue(self, fd) ==
  LET done == run_f(fd, new(Underlying(self)), <<>>)
  IN  map_or(done.iter.err, done.iteration_output)

\* ------------------------------------------------- vocabulary of the claims
\* The number of underlying next calls one adapter call made.
PulledN(e) == e.after.iter.n - e.before.iter.n

\* The element at the underlying cursor when the adapter call started.
PulledItem(e) == iter_next(e.before.iter).item

PulledErr(e) ==
  PulledN(e) > 0 /\ PulledItem(e) # None /\ PulledItem(e)[1].tag = "Err"

ErrIdx(s) == {j \in DOMAIN s : s[j].tag = "Err"}
HasErr(s) == ErrIdx(s) # {}
AllOk(s) == ErrIdx(s) = {}
Min(S) == CHOOSE x \in S : \A y \in S : x <= y
Max(S) == CHOOSE x \in S : \A y \in S : x >= y
\* Index of the first Err element, 0 when there is none.
FirstErr(s) == IF HasErr(s) THEN Min(ErrIdx(s)) ELSE 0
Unwrap(s) == [j \in DOMAIN s |-> s[j].val]

\* How many elements invocation i has taken out of its underlying sequence.
Consumed(i) ==
  IF iter[i] = None THEN 0 ELSE Min({iter[i][1].iter.n, Len(input[i])})

Returned(i) == pc[i] = "ret"

\* ------------------------------------------------------------------ claims

\* C1: once a next call has returned None because the element it pulled was an
\* Err, every later next call on the same adapter returns None and makes no
\* call of next on the underlying iterator.
C1_FusedAfterErr ==
  \A i \in Invs : \A k, l \in DOMAIN log[i] :
    (k < l /\ log[i][k].ret = None /\ PulledErr(log[i][k]))
      => (log[i][l].ret = None /\ PulledN(log[i][l]) = 0)

\* C2: the captured-error slot is written at most once: once it holds an error
\* value it holds that same value in every later state.
C2_SlotNeverOverwritten ==
  [][\A i \in Invs :
       (iter[i] # None /\ iter[i][1].err # None) => iter'[i][1].err = iter[i][1].err]_vars

\* C3: no next call returns the payload of an Ok element positioned after the
\* first Err element of the underlying sequence.
C3_NoPayloadAfterFirstErr ==
  \A i \in Invs : \A k \in DOMAIN log[i] :
    log[i][k].ret # None
      => (~HasErr(input[i]) \/ log[i][k].before.iter.n + 1 < FirstErr(input[i]))

C5_AllOkGivesDirect ==
  \A i \in Invs : (Returned(i) /\ AllOk(input[i]))
    => (result[i][1].tag = "Ok"
        /\ result[i][1].val = DirectRun(f[i], Unwrap(input[i]), 0, 0, <<>>))

\* C5 witness: sum over an all-Ok sequence of two or more elements, fully read.
C5_Witness ==
  \E i \in Invs :
    /\ Returned(i) /\ AllOk(input[i]) /\ Len(input[i]) >= 2
    /\ f[i].kind = "sum" /\ f[i].limit > Len(input[i])
    /\ result[i][1] = Ok(SumSeq(Unwrap(input[i])))

\* C6: try_continue returns Ok(R) exactly when the slot is empty once the
\* transformation has returned R, and Err(E) of the slot's E otherwise.
C6_ResultBySlot ==
  \A i \in Invs : Returned(i)
    => LET e == iter[i][1].err
           r == result[i][1]
       IN  /\ (r.tag = "Ok") <=> (e = None)
           /\ e = None => r.val = iteration_output[i][1]
           /\ e # None => r.val = e[1]

\* C6 witness: count saw no payload and computed 0, the slot holds an error,
\* and the result is that error.
C6_Witness ==
  \E i \in Invs :
    /\ Returned(i) /\ f[i].kind = "count"
    /\ iteration_output[i] = Some(0)
    /\ iter[i][1].err # None
    /\ result[i][1] = Err(iter[i][1].err[1])

\* C7: an Err returned by try_continue carries the error of an Err element the
\* adapter pulled during this invocation; none pulled, no Err returned.
C7_ErrOnlyFromPulled ==
  \A i \in Invs : (Returned(i) /\ result[i][1].tag = "Err")
    => \E j \in 1..Consumed(i) : input[i][j] = Err(result[i][1].val)

\* C7 witness: an Err result after at least two next calls.
C7_Witness ==
  \E i \in Invs :
    Returned(i) /\ result[i][1].tag = "Err" /\ Len(log[i]) >= 2

\* C8: the transformation is invoked exactly once, it has returned before
\* try_continue returns, and the slot is read after its last next call.
C8_FOnceThenRead ==
  \A i \in Invs :
    /\ fcount[i] <= 1
    /\ pc[i] # "call" => fcount[i] = 1
    /\ pc[i] # "ret" => (result[i] = None /\ errRead[i] = None)
    /\ pc[i] = "ret" => /\ result[i] # None
                        /\ iteration_output[i] # None
                        /\ errRead[i] = Some(Len(log[i]))
                        /\ ~Wants(f[i], log[i])

\* C8 witness: try_continue returned after a transformation that made two or
\* more next calls.
C8_Witness ==
  \E i \in Invs : Returned(i) /\ fcount[i] = 1 /\ Len(log[i]) >= 2

\* C9: two invocations whose next calls are interleaved in any order each
\* return what try_continue returns on that sequence and transformation when
\* it runs alone.
C9_PairAsAlone ==
  \A i \in Invs : Returned(i) => result[i][1] = try_continue(input[i], f[i])

\* C9 witness: invocation 1 has returned an error after two or more next
\* calls while invocation 2, on another sequence, is in the middle of its
\* transformation with payloads received and its own slot still empty.
C9_Witness ==
  /\ Invs = {1, 2}
  /\ input[1] # input[2]
  /\ Returned(1) /\ result[1][1].tag = "Err" /\ Len(log[1]) >= 2
  /\ pc[2] = "f" /\ Len(log[2]) >= 1 /\ Wants(f[2], log[2])
  /\ iter[2][1].err = None

\* C10: two runs of try_continue on the same failing sequence with the same
\* transformation end with the same result.
C10_SameInputSameResult ==
  \A i, j \in Invs :
    (Returned(i) /\ Returned(j) /\ input[i] = input[j] /\ f[i] = f[j]
       /\ HasErr(input[i]))
      => result[i] = result[j]

\* C10 witness: two runs on the same sequence with two Err elements and the
\* same transformation have both returned an error.
C10_Witness ==
  /\ Invs = {1, 2}
  /\ input[1] = input[2] /\ f[1] = f[2]
  /\ Cardinality(ErrIdx(input[1])) >= 2
  /\ Returned(1) /\ Returned(2)
  /\ result[1][1].tag = "Err" /\ result[2][1].tag = "Err"

\* C11: on an empty underlying sequence every next call returns None, the slot
\* stays empty, and try_continue returns Ok of what the transformation computes
\* over zero elements.
C11_EmptyInput ==
  \A i \in Invs : input[i] = <<>>
    => /\ \A k \in DOMAIN log[i] : log[i][k].ret = None
       /\ iter[i] # None => iter[i][1].err = None
       /\ Returned(i) => (result[i][1].tag = "Ok"
                          /\ result[i][1].val = Output(f[i], <<>>))

\* C11 witness: count over the empty sequence made two next calls and
\* try_continue returned Ok(0).
C11_Witness ==
  \E i \in Invs :
    /\ input[i] = <<>> /\ f[i].kind = "count"
    /\ Len(log[i]) >= 2
    /\ Returned(i) /\ result[i][1] = Ok(0)

\* A transformation that calls next again and again until the first None, as
\* count, sum and collect do: no limit cuts it short on the sequence s.
UntilFirstNone(fd, s) == fd.nones = 1 /\ fd.limit > Len(s)

FDone(i) == pc[i] \in {"map_or", "ret"}

\* C12: when the transformation calls next on the fresh adapter until the first
\* None and the sequence contains an Err element, the slot holds the first Err
\* element's error and try_continue returns Err of it; a sequence that starts
\* with an Err yields no payload and still gives that error.
C12_DrainGivesFirstErr ==
  \A i \in Invs : (HasErr(input[i]) /\ UntilFirstNone(f[i], input[i]) /\ FDone(i))
    => LET e == input[i][FirstErr(input[i])].val
       IN  /\ iter[i][1].err = Some(e)
           /\ Len(log[i]) = FirstErr(input[i])
           /\ FirstErr(input[i]) = 1 => Seen(log[i]) = <<>>
           /\ Returned(i) => (result[i][1].tag = "Err" /\ result[i][1].val = e)

\* C12 witness: count over a sequence whose first element is an Err and which
\* has further elements computed 0, and try_continue returned that error.
C12_Witness ==
  \E i \in Invs :
    /\ Len(input[i]) >= 2 /\ FirstErr(input[i]) = 1
    /\ UntilFirstNone(f[i], input[i]) /\ f[i].kind = "count"
    /\ Returned(i) /\ iteration_output[i] = Some(0)
    /\ result[i][1] = Err(input[i][1].val)

\* C13: once the transformation has pulled the first Err element, whatever
\* further next calls it makes on the same adapter, try_continue returns Err of
\* the first Err element's error.
C13_FirstErrSurvivesLaterCalls ==
  \A i \in Invs :
    (Returned(i) /\ HasErr(input[i]) /\ Consumed(i) >= FirstErr(input[i]))
      => (result[i][1].tag = "Err"
          /\ result[i][1].val = input[i][FirstErr(input[i])].val)

\* Position of the first None answer in a log of next calls, 0 when none.
FirstNone(lg) ==
  IF \E k \in DOMAIN lg : lg[k].ret = None
  THEN Min({k \in DOMAIN lg : lg[k].ret = None})
  ELSE 0

\* The next calls made before the first None answer.
UpToFirstNone(lg) ==
  SubSeq(lg, 1, IF FirstNone(lg) = 0 THEN Len(lg) ELSE FirstNone(lg) - 1)

\* The payloads of the longest error-free prefix of s.
OkPrefix(s) ==
  Unwrap(SubSeq(s, 1, IF HasErr(s) THEN FirstErr(s) - 1 ELSE Len(s)))

\* C14: the next calls made on a fresh adapter up to its first None yield the
\* payloads of the longest error-free prefix of the underlying sequence, in
\* order, each once: all of them once the first None has come, and collect
\* over them gives that prefix.
C14_YieldsOkPrefix ==
  \A i \in Invs :
    LET got == Seen(UpToFirstNone(log[i]))
        pre == OkPrefix(input[i])
    IN  /\ Len(got) <= Len(pre)
        /\ got = SubSeq(pre, 1, Len(got))
        /\ FirstNone(log[i]) # 0 => got = pre
        /\ (UntilFirstNone(f[i], input[i]) /\ f[i].kind = "collect" /\ FDone(i))
             => iteration_output[i] = Some(pre)

\* C14 witness: collect up to the first None over a sequence with two Ok
\* elements, then an Err, has returned the two payloads.
C14_Witness ==
  \E i \in Invs :
    /\ FirstErr(input[i]) = 3
    /\ UntilFirstNone(f[i], input[i]) /\ f[i].kind = "collect"
    /\ FDone(i) /\ FirstNone(log[i]) = 3
    /\ iteration_output[i] = Some(<<input[i][1].val, input[i][2].val>>)

\* The captured-error slot of invocation i in adapter array a, None while the
\* adapter does not exist.
SlotOf(a, i) == IF a[i] = None THEN None ELSE a[i][1].err

\* C15: the slot changes only in a step that is a next call whose pulled
\* element is an Err; a next call that returns a payload or finds the
\* underlying sequence exhausted, and every step of try_continue and of the
\* transformation itself, leaves it as it was.
C15_SlotFrame ==
  [][\A i \in Invs :
       SlotOf(iter', i) # SlotOf(iter, i)
         => /\ Len(log'[i]) = Len(log[i]) + 1
            /\ PulledErr(log'[i][Len(log'[i])])]_vars

\* C15 witness: with an error already captured, one next call returned a
\* payload and another found the sequence exhausted, and both left the slot
\* as it was.
C15_Witness ==
  \E i \in Invs : \E k, l \in DOMAIN log[i] :
    /\ log[i][k].ret # None
    /\ log[i][k].before.err # None
    /\ log[i][k].after.err = log[i][k].before.err
    /\ PulledItem(log[i][l]) = None
    /\ log[i][l].after.err = log[i][l].before.err

\* C16: an adapter's slot is occupied exactly when the adapter has pulled at
\* least one Err element; it is empty right after construction and while only
\* Ok elements or the end of the sequence have been seen.
C16_SlotIffErrPulled ==
  \A i \in Invs : iter[i] # None
    => /\ (iter[i][1].err # None)
            <=> (\E j \in 1..Consumed(i) : input[i][j].tag = "Err")
       /\ log[i] = <<>> => iter[i][1].err = None

\* C16 witness: an adapter that first yielded a payload and then pulled an Err
\* element holds an error in its slot.
C16_Witness ==
  \E i \in Invs :
    /\ iter[i] # None /\ iter[i][1].err # None
    /\ Len(log[i]) >= 2
    /\ log[i][1].ret # None /\ log[i][1].after.err = None
    /\ PulledErr(log[i][2])

\* C17: the adapter never reads ahead: building it pulls nothing, each next
\* call makes at most one call of next on the underlying iterator, so the
\* elements consumed never outnumber the next calls made, and a
\* transformation that makes no next call consumes nothing.
C17_NoReadAhead ==
  \A i \in Invs :
    /\ pc[i] = "call" => iter[i] = None
    /\ iter[i] # None
         => /\ iter[i][1].iter.n <= Len(log[i])
            /\ Consumed(i) <= Len(log[i])
            /\ log[i] = <<>> => iter[i][1].iter.n = 0
    /\ \A k \in DOMAIN log[i] : PulledN(log[i][k]) <= 1

\* C17 witness: try_continue returned from a transformation that made no next
\* call on a non-empty sequence, and nothing was taken from the sequence.
C17_Witness ==
  \E i \in Invs :
    /\ Len(input[i]) >= 1 /\ Returned(i)
    /\ log[i] = <<>> /\ iter[i][1].iter.n = 0

\* C18: over a sequence of length n a transformation that calls next until it
\* receives None makes at most n + 1 calls, the last of them answered None,
\* and try_continue eventually returns.
C18_DrainTerminates ==
  /\ [](\A i \in Invs : UntilFirstNone(f[i], input[i])
          => /\ Len(log[i]) <= Len(input[i]) + 1
             /\ FDone(i) => (Len(log[i]) >= 1 /\ FirstNone(log[i]) = Len(log[i])))
  /\ <>(\A i \in Invs : Returned(i))

\* C18 witness: over an all-Ok sequence of two or more elements the
\* transformation made n + 1 next calls, the last answered None, and
\* try_continue returned.
C18_Witness ==
  \E i \in Invs :
    /\ UntilFirstNone(f[i], input[i])
    /\ AllOk(input[i]) /\ Len(input[i]) >= 2
    /\ Returned(i)
    /\ Len(log[i]) = Len(input[i]) + 1
    /\ log[i][Len(log[i])].ret = None

====
